---------------------------- MODULE Spec2Model ----------------------------
(***************************************************************************)
(* A model of godot_cpp/core/math.hpp: the scalar and angle helpers of     *)
(* namespace godot::Math and the power-of-two helpers of namespace godot.  *)
(*                                                                         *)
(* The header is a library of functions.  Each function is an action that  *)
(* draws its arguments from a bounded set and records the call in          *)
(* (fn, args, result, aux).  The one piece of state that outlives a call   *)
(* is the function-local static of fast_ftoi, which gets its own           *)
(* two-thread specification.                                               *)
(*                                                                         *)
(* Number representations:                                                 *)
(*   - unsigned int is a pair <<hi, lo>> of 16-bit halves with arithmetic  *)
(*     modulo 2^32, so that the wrap-around of --x, ++x and of subtraction *)
(*     is the one the machine performs;                                    *)
(*   - int64_t values are integers kept far from 2^63;                     *)
(*   - float/double values are exact: rationals <<n, d>> for the           *)
(*     interpolation routines, multiples of TAU/36 for angles, and         *)
(*     sign-magnitude decimals (with the infinities and NaN) for the       *)
(*     approximate comparisons.  Rounding of the floating-point formats    *)
(*     is not modelled.                                                    *)
(***************************************************************************)
EXTENDS Integers, Sequences, FiniteSets, TLC

VARIABLES
    precise,       \* whether the build defines PRECISE_MATH_CHECKS
    fn,            \* the function called last ("none" before any call)
    args,          \* its arguments
    result,        \* its return value
    aux,           \* what the call evaluated on the way (per function)
    pc,            \* fast_ftoi: where each thread is in its call
    t_a,           \* fast_ftoi: each thread's argument a, in halves
    fast_ftoi_b,   \* fast_ftoi: the function-local `static int b`
    b_writer,      \* fast_ftoi: the thread whose store b holds (0: none)
    b_read_from,   \* fast_ftoi: for each thread, whose store its load read
    ret            \* fast_ftoi: each thread's return value

vars == <<precise, fn, args, result, aux, pc, t_a, fast_ftoi_b, b_writer, b_read_from, ret>>

(***************************************************************************)
(* Bounds of the model.                                                    *)
(***************************************************************************)
\* fast_ftoi arguments range over -MaxHalf/2 .. MaxHalf/2 in steps of 0.5.
MaxHalf == 3

\* lerp_angle arguments lie within MaxTurns full turns of zero.
MaxTurns == 2

\* cubic_interpolate_in_time: from and to lie in -MaxVal..MaxVal, pre and post
\* just outside, and the three times in -MaxT..MaxT.
MaxVal == 1

MaxT == 2

\* wrapi: value lies in -MaxWrapValue..MaxWrapValue, min and max in
\* -MaxWrapEdge..MaxWrapEdge.
MaxWrapValue == 7

MaxWrapEdge == 3

\* The power-of-two helpers are called on 2^k + 2^j + d (modulo 2^32) for
\* every pair of bit positions j <= k and every offset d in -MaxOff..MaxOff.
MaxOff == 2

\* The approximate comparisons are called on 0, the infinities and
\* +-m * 10^e for m in 1..MaxMant or m = 5 and e in Exponents, and on sums
\* of two of these.
MaxMant == 2

Exponents == {-7, -6, -5, -4, -3, -1, 0, 1, 5, 10}

\* move_toward: p_from and p_to lie in -MaxMove..MaxMove, p_delta in
\* 0..MaxDelta.
MaxMove == 3

MaxDelta == 3

Threads == {1, 2}

(***************************************************************************)
(* Small generic helpers (ABS, SIGN, MIN, MAX of lines 58-82).             *)
(***************************************************************************)
ABS(m_v) == IF m_v < 0 THEN -m_v ELSE m_v

SIGN(m_v) == IF m_v = 0 THEN 0 ELSE IF m_v < 0 THEN -1 ELSE 1

MIN(m_a, m_b) == IF m_a < m_b THEN m_a ELSE m_b

MAX(m_a, m_b) == IF m_a > m_b THEN m_a ELSE m_b

(***************************************************************************)
(* C's integer division and remainder: the quotient truncates toward zero  *)
(* and the remainder has the sign of the dividend.  Both are undefined for *)
(* a zero divisor; callers guard.                                          *)
(***************************************************************************)
CDiv(x, y) ==
    IF (x >= 0) = (y > 0) THEN ABS(x) \div ABS(y) ELSE -(ABS(x) \div ABS(y))

CRem(x, y) == x - y * CDiv(x, y)

(***************************************************************************)
(* Exact rationals <<n, d>> with d > 0 and gcd(n, d) = 1: the values of    *)
(* float/double expressions in exact arithmetic.                           *)
(***************************************************************************)
RECURSIVE GCD(_, _)
GCD(x, y) == IF y = 0 THEN x ELSE GCD(y, x % y)

\* What a division by zero, and any arithmetic on its result, yields: an
\* infinity or a NaN.  The two are not told apart.
NonFinite == <<0, 0>>

IsFinite(x) == x[2] # 0

Rat(n, d) ==
    IF d = 0 THEN NonFinite
    ELSE LET g == GCD(ABS(n), ABS(d))
             s == IF d < 0 THEN -1 ELSE 1
         IN  <<s * (n \div g), s * (d \div g)>>

RatInt(n) == <<n, 1>>

RatAdd(x, y) == Rat(x[1] * y[2] + y[1] * x[2], x[2] * y[2])

RatSub(x, y) == Rat(x[1] * y[2] - y[1] * x[2], x[2] * y[2])

RatMul(x, y) == Rat(x[1] * y[1], x[2] * y[2])

RatNeg(x) == <<-x[1], x[2]>>

\* x == 0 in the code: false of an infinity or a NaN.
RatIsZero(x) == IsFinite(x) /\ x[1] = 0

RatDiv(x, y) == Rat(x[1] * y[2], x[2] * y[1])

(***************************************************************************)
(* Angles.  An angle is an integer number of steps of TAU/36 (10 degrees), *)
(* so Math_PI is 18 steps and Math_TAU 36.  On this lattice fmod, the      *)
(* truncated remainder with the sign of the dividend, is exact.            *)
(***************************************************************************)
Math_PI == 18

Math_TAU == 2 * Math_PI

\* Math::fmod (lines 296-301): ::fmod, the remainder of the truncated quotient.
fmod(p_x, p_y) == CRem(p_x, p_y)

\* Math::lerp (lines 444-449) on rationals.
lerp(minv, maxv, t) == RatAdd(minv, RatMul(t, RatSub(maxv, minv)))

\* lerp_angle (lines 451-465): the double, float and Radian overloads are
\* the same three statements (the Radian operands convert to real_t).
lerp_angle_difference(p_from, p_to) == fmod(p_to - p_from, Math_TAU)

\* The naive interpolation: along the raw difference.
lerp_angle_distance_naive(p_from, p_to) == lerp_angle_difference(p_from, p_to)

lerp_angle_distance(p_from, p_to) ==
    LET difference == lerp_angle_difference(p_from, p_to)
    IN  fmod(2 * difference, Math_TAU) - difference

lerp_angle(p_from, p_to, p_weight) ==
    RatAdd(RatInt(p_from), RatMul(RatInt(lerp_angle_distance(p_from, p_to)), p_weight))

AngleArgs == (-MaxTurns * Math_TAU)..(MaxTurns * Math_TAU)

Weights == {<<0, 1>>, <<1, 2>>, <<1, 1>>}

LerpAngle ==
    /\ fn = "none"
    /\ \E p_from \in AngleArgs, p_to \in AngleArgs, p_weight \in Weights :
        /\ fn' = "lerp_angle"
        /\ args' = <<p_from, p_to, p_weight>>
        /\ aux' = [difference |-> lerp_angle_difference(p_from, p_to),
                   distance |-> lerp_angle_distance(p_from, p_to)]
        /\ result' = lerp_angle(p_from, p_to, p_weight)
    /\ UNCHANGED <<precise, pc, t_a, fast_ftoi_b, b_writer, b_read_from, ret>>

(***************************************************************************)
(* lerp_angle, the Degree overload (lines 466-470).  Degree converts to    *)
(* and from real_t implicitly (lines 272, 279) and has no arithmetic of    *)
(* its own, so the three statements are arithmetic on the degree values:   *)
(*     Degree difference = fmod(p_to - p_from, (real_t)Math_TAU);          *)
(*     Degree distance = fmod(2 * difference, (real_t)Math_TAU)            *)
(*                       - difference;                                     *)
(*     return p_from + distance * p_weight;                                *)
(* Values are whole multiples of 10^-5; Math_TAU_real is Math_TAU          *)
(* (6.2831853...) to that precision.                                       *)
(***************************************************************************)
RealUnits == 10 ^ 5

Math_TAU_real == 628319

\* A whole number of degrees as a Degree value.
Degree(d) == d * RealUnits

lerp_angle_Degree_distance(p_from, p_to) ==
    LET difference == fmod(p_to - p_from, Math_TAU_real)
    IN  fmod(2 * difference, Math_TAU_real) - difference

lerp_angle_Degree(p_from, p_to, p_weight) ==
    RatAdd(RatInt(p_from),
           RatMul(RatInt(lerp_angle_Degree_distance(p_from, p_to)), p_weight))

\* The Degree arguments: the multiples of ten degrees within MaxTurns turns.
DegreeArgs == {Degree(10 * d) : d \in (-MaxTurns * 36)..(MaxTurns * 36)}

LerpAngleDegree ==
    /\ fn = "none"
    /\ \E p_from \in DegreeArgs, p_to \in DegreeArgs, p_weight \in Weights :
        /\ fn' = "lerp_angle_Degree"
        /\ args' = <<p_from, p_to, p_weight>>
        /\ aux' = [distance |-> lerp_angle_Degree_distance(p_from, p_to)]
        /\ result' = lerp_angle_Degree(p_from, p_to, p_weight)
    /\ UNCHANGED <<precise, pc, t_a, fast_ftoi_b, b_writer, b_read_from, ret>>

(***************************************************************************)
(* cubic_interpolate_in_time (lines 548-570), the Barry-Goldman method.    *)
(* The double and the float overload are the same seven statements.  Each  *)
(* of the six blend parameters is a conditional expression                 *)
(*     den == 0 ? constant : num / den                                     *)
(* recorded with whether the division was evaluated and on what            *)
(* denominator.                                                            *)
(***************************************************************************)
Blend(isZero, const, num, den) ==
    [divided |-> ~isZero,
     den |-> den,
     value |-> IF isZero THEN const ELSE RatDiv(num, den)]

\* double t = Math::lerp(0.0, p_to_t, p_weight);
cit_t_unscaled(p_to_t, p_weight) == p_weight

cit_t(p_to_t, p_weight) == lerp(RatInt(0), p_to_t, p_weight)

\* p_pre_t == 0 ? 0.0 : (t - p_pre_t) / -p_pre_t
cit_w_a1(t, p_to_t, p_pre_t, p_post_t) ==
    Blend(RatIsZero(p_pre_t), RatInt(0), RatSub(t, p_pre_t), RatNeg(p_pre_t))

\* p_to_t == 0 ? 0.5 : t / p_to_t
cit_w_a2(t, p_to_t, p_pre_t, p_post_t) ==
    Blend(RatIsZero(p_to_t), <<1, 2>>, t, p_to_t)

\* p_post_t - p_to_t == 0 ? 1.0 : (t - p_to_t) / (p_post_t - p_to_t)
cit_w_a3(t, p_to_t, p_pre_t, p_post_t) ==
    Blend(RatIsZero(RatSub(p_post_t, p_to_t)), RatInt(1),
          RatSub(t, p_to_t), RatSub(p_post_t, p_to_t))

\* p_to_t - p_pre_t == 0 ? 0.0 : (t - p_pre_t) / (p_to_t - p_pre_t)
cit_w_b1(t, p_to_t, p_pre_t, p_post_t) ==
    Blend(RatIsZero(RatSub(p_to_t, p_pre_t)), RatInt(0),
          RatSub(t, p_pre_t), RatSub(p_to_t, p_pre_t))

\* The guard of the final blend on the division by p_post_t.
cit_w_b2_guard_to_t(t, p_to_t, p_pre_t, p_post_t) ==
    Blend(RatIsZero(p_to_t), RatInt(1), t, p_post_t)

\* p_post_t == 0 ? 1.0 : t / p_post_t
cit_w_b2(t, p_to_t, p_pre_t, p_post_t) ==
    Blend(RatIsZero(p_post_t), RatInt(1), t, p_post_t)

\* p_to_t == 0 ? 0.5 : t / p_to_t
cit_w_c(t, p_to_t, p_pre_t, p_post_t) ==
    Blend(RatIsZero(p_to_t), <<1, 2>>, t, p_to_t)

\* The six blend parameters of one call.
cit_params(p_weight, p_to_t, p_pre_t, p_post_t) ==
    LET t == cit_t(p_to_t, p_weight)
    IN  [a1 |-> cit_w_a1(t, p_to_t, p_pre_t, p_post_t),
         a2 |-> cit_w_a2(t, p_to_t, p_pre_t, p_post_t),
         a3 |-> cit_w_a3(t, p_to_t, p_pre_t, p_post_t),
         b1 |-> cit_w_b1(t, p_to_t, p_pre_t, p_post_t),
         b2 |-> cit_w_b2(t, p_to_t, p_pre_t, p_post_t),
         c |-> cit_w_c(t, p_to_t, p_pre_t, p_post_t)]

cubic_interpolate_in_time(p_from, p_to, p_pre, p_post, p_weight, p_to_t, p_pre_t, p_post_t) ==
    LET w == cit_params(p_weight, p_to_t, p_pre_t, p_post_t)
        a1 == lerp(p_pre, p_from, w.a1.value)
        a2 == lerp(p_from, p_to, w.a2.value)
        a3 == lerp(p_to, p_post, w.a3.value)
        b1 == lerp(a1, a2, w.b1.value)
        b2 == lerp(a2, a3, w.b2.value)
    IN  lerp(b1, b2, w.c.value)

CubicEnds == -MaxVal..MaxVal

CubicControls == {-MaxVal - 1, MaxVal + 1}

CubicTimes == -MaxT..MaxT

CubicInterpolateInTime ==
    /\ fn = "none"
    /\ \E p_from \in CubicEnds, p_to \in CubicEnds,
          p_pre \in CubicControls, p_post \in CubicControls, p_weight \in Weights,
          p_to_t \in CubicTimes, p_pre_t \in CubicTimes, p_post_t \in CubicTimes :
        /\ fn' = "cubic_interpolate_in_time"
        /\ args' = <<p_from, p_to, p_pre, p_post, p_weight, p_to_t, p_pre_t, p_post_t>>
        /\ aux' = cit_params(p_weight, RatInt(p_to_t), RatInt(p_pre_t), RatInt(p_post_t))
        /\ result' = cubic_interpolate_in_time(
                        RatInt(p_from), RatInt(p_to), RatInt(p_pre), RatInt(p_post),
                        p_weight, RatInt(p_to_t), RatInt(p_pre_t), RatInt(p_post_t))
    /\ UNCHANGED <<precise, pc, t_a, fast_ftoi_b, b_writer, b_read_from, ret>>

(***************************************************************************)
(* cubic_interpolate (lines 472-478) on rationals:                         *)
(*     0.5 * ((p_from * 2) + (-p_pre + p_to) * w                           *)
(*            + (2 p_pre - 5 p_from + 4 p_to - p_post) * (w * w)           *)
(*            + (-p_pre + 3 p_from - 3 p_to + p_post) * (w * w * w))       *)
(***************************************************************************)
cubic_interpolate(p_from, p_to, p_pre, p_post, p_weight) ==
    LET k(n) == RatInt(n)
        w2 == RatMul(p_weight, p_weight)
        w3 == RatMul(w2, p_weight)
        t0 == RatMul(p_from, k(2))
        t1 == RatMul(RatAdd(RatNeg(p_pre), p_to), p_weight)
        t2 == RatMul(RatSub(RatAdd(RatSub(RatMul(k(2), p_pre), RatMul(k(5), p_from)),
                                   RatMul(k(4), p_to)), p_post), w2)
        t3 == RatMul(RatAdd(RatSub(RatAdd(RatNeg(p_pre), RatMul(k(3), p_from)),
                                   RatMul(k(3), p_to)), p_post), w3)
    IN  RatMul(Rat(1, 2), RatAdd(RatAdd(t0, t1), RatAdd(t2, t3)))

(***************************************************************************)
(* cubic_interpolate_angle (lines 488-501) and                             *)
(* cubic_interpolate_angle_in_time (lines 572-586) on angles that are      *)
(* whole multiples of TAU / 36.  Both begin with the same seven            *)
(* statements, which give the four values handed to the cubic routine.     *)
(***************************************************************************)
\* post_diff taken from from_rot, as pre_diff and to_diff are.
cubic_angle_rots_post_from_from(p_from, p_to, p_pre, p_post) ==
    LET from_rot == fmod(p_from, Math_TAU)
        pre_diff == fmod(p_pre - from_rot, Math_TAU)
        pre_rot == from_rot + fmod(2 * pre_diff, Math_TAU) - pre_diff
        to_diff == fmod(p_to - from_rot, Math_TAU)
        to_rot == from_rot + fmod(2 * to_diff, Math_TAU) - to_diff
        post_diff == fmod(p_post - from_rot, Math_TAU)
        post_rot == from_rot + fmod(2 * post_diff, Math_TAU) - post_diff
    IN  [from_rot |-> from_rot, pre_rot |-> pre_rot,
         to_rot |-> to_rot, post_rot |-> post_rot]

cubic_angle_rots(p_from, p_to, p_pre, p_post) ==
    LET from_rot == fmod(p_from, Math_TAU)
        pre_diff == fmod(p_pre - from_rot, Math_TAU)
        pre_rot == from_rot + fmod(2 * pre_diff, Math_TAU) - pre_diff
        to_diff == fmod(p_to - from_rot, Math_TAU)
        to_rot == from_rot + fmod(2 * to_diff, Math_TAU) - to_diff
        post_diff == fmod(p_post - to_rot, Math_TAU)
        post_rot == to_rot + fmod(2 * post_diff, Math_TAU) - post_diff
    IN  [from_rot |-> from_rot, pre_rot |-> pre_rot,
         to_rot |-> to_rot, post_rot |-> post_rot]

cubic_interpolate_angle(p_from, p_to, p_pre, p_post, p_weight) ==
    LET r == cubic_angle_rots(p_from, p_to, p_pre, p_post)
    IN  cubic_interpolate(RatInt(r.from_rot), RatInt(r.to_rot),
                          RatInt(r.pre_rot), RatInt(r.post_rot), p_weight)

cubic_interpolate_angle_in_time(p_from, p_to, p_pre, p_post, p_weight, p_to_t, p_pre_t, p_post_t) ==
    LET r == cubic_angle_rots(p_from, p_to, p_pre, p_post)
    IN  cubic_interpolate_in_time(RatInt(r.from_rot), RatInt(r.to_rot),
                                  RatInt(r.pre_rot), RatInt(r.post_rot), p_weight,
                                  RatInt(p_to_t), RatInt(p_pre_t), RatInt(p_post_t))

\* The angles of the calls: p_from a multiple of a sixth of a turn within
\* MaxTurns turns of zero, p_to and p_post multiples of a sixth and p_pre a
\* multiple of a third of a turn within one turn of zero.
SixthTurns(turns) ==
    {a \in (-turns * Math_TAU)..(turns * Math_TAU) : a % (Math_TAU \div 6) = 0}

ThirdTurns == {a \in -Math_TAU..Math_TAU : a % (Math_TAU \div 3) = 0}

CubicInterpolateAngle ==
    /\ fn = "none"
    /\ \E p_from \in SixthTurns(MaxTurns), p_to \in SixthTurns(1),
          p_pre \in ThirdTurns, p_post \in SixthTurns(1) :
        /\ fn' = "cubic_interpolate_angle"
        /\ args' = <<p_from, p_to, p_pre, p_post, Rat(1, 2)>>
        /\ aux' = cubic_angle_rots(p_from, p_to, p_pre, p_post)
        /\ result' = cubic_interpolate_angle(p_from, p_to, p_pre, p_post, Rat(1, 2))
    /\ UNCHANGED <<precise, pc, t_a, fast_ftoi_b, b_writer, b_read_from, ret>>

CubicInterpolateAngleInTime ==
    /\ fn = "none"
    /\ \E p_from \in SixthTurns(MaxTurns), p_to \in SixthTurns(1),
          p_pre \in ThirdTurns, p_post \in SixthTurns(1) :
        /\ fn' = "cubic_interpolate_angle_in_time"
        /\ args' = <<p_from, p_to, p_pre, p_post, Rat(1, 2), 1, -1, 2>>
        /\ aux' = cubic_angle_rots(p_from, p_to, p_pre, p_post)
        /\ result' = cubic_interpolate_angle_in_time(p_from, p_to, p_pre, p_post,
                                                     Rat(1, 2), 1, -1, 2)
    /\ UNCHANGED <<precise, pc, t_a, fast_ftoi_b, b_writer, b_read_from, ret>>

(***************************************************************************)
(* fposmodp (lines 320-335) on values that are whole numbers, where fmod   *)
(* and the addition are exact:                                             *)
(*     value = Math::fmod(p_x, p_y);                                       *)
(*     if (value < 0) { value += p_y; }                                    *)
(*     value += 0.0;                                                       *)
(* fmod(p_x, 0) is NaN; the call is made with p_y # 0.                     *)
(***************************************************************************)
\* The remainder returned as fmod gives it, without the lift.
fposmodp_no_lift(p_x, p_y) == fmod(p_x, p_y) + 0

fposmodp(p_x, p_y) ==
    LET value == fmod(p_x, p_y)
        lifted == IF value < 0 THEN value + p_y ELSE value
    IN  lifted + 0

Fposmodp ==
    /\ fn = "none"
    /\ \E p_x \in -MaxWrapValue..MaxWrapValue,
          p_y \in (-MaxWrapEdge..MaxWrapEdge) \ {0} :
        /\ fn' = "fposmodp"
        /\ args' = <<p_x, p_y>>
        /\ aux' = <<>>
        /\ result' = fposmodp(p_x, p_y)
    /\ UNCHANGED <<precise, pc, t_a, fast_ftoi_b, b_writer, b_read_from, ret>>

(***************************************************************************)
(* posmod (lines 337-343) on int64_t values far from the ends of the type: *)
(*     int64_t value = p_x % p_y;                                          *)
(*     if ((value < 0 && p_y > 0) || (value > 0 && p_y < 0)) value += p_y; *)
(*     return value;                                                       *)
(* p_x % p_y is evaluated whatever p_y is.  With p_y == 0 its behaviour is *)
(* undefined: the division instruction of x86 raises SIGFPE and no value   *)
(* is returned, that of AArch64 yields quotient 0, hence remainder p_x.    *)
(* aux records the divisors of the remainders evaluated and the signal     *)
(* raised.                                                                 *)
(***************************************************************************)
posmod(p_x, p_y) ==
    LET value == CRem(p_x, p_y)
    IN  IF (value < 0 /\ p_y > 0) \/ (value > 0 /\ p_y < 0)
        THEN value + p_y
        ELSE value

\* The outcomes of p_x % 0.
RemainderByZero == {"SIGFPE", "p_x"}

Posmod ==
    /\ fn = "none"
    /\ \E p_x \in -MaxWrapValue..MaxWrapValue, p_y \in -MaxWrapEdge..MaxWrapEdge :
        /\ fn' = "posmod"
        /\ args' = <<p_x, p_y>>
        /\ IF p_y # 0
           THEN /\ aux' = [divisors |-> <<p_y>>, signal |-> "none"]
                /\ result' = posmod(p_x, p_y)
           ELSE \E outcome \in RemainderByZero :
                /\ aux' = [divisors |-> <<p_y>>,
                           signal |-> IF outcome = "SIGFPE" THEN "SIGFPE" ELSE "none"]
                /\ result' = IF outcome = "SIGFPE" THEN 0 ELSE p_x
    /\ UNCHANGED <<precise, pc, t_a, fast_ftoi_b, b_writer, b_read_from, ret>>

(***************************************************************************)
(* move_toward, the float overload (lines 877-879), on floats whose value  *)
(* is a whole number:                                                      *)
(*     return std::abs(p_to - p_from) <= p_delta                           *)
(*                ? p_to : p_from + sign(p_to - p_from) * p_delta;         *)
(* Each operation gives the float nearest to its exact result, ties to the *)
(* even significand; a float has FloatPrecision significant bits, so the   *)
(* whole numbers up to 2^24 in magnitude are floats and beyond them only   *)
(* the multiples of 2, then of 4, and so on.  The double overload (lines   *)
(* 873-875) is the same statement with 53 significant bits.                *)
(* A caller holds x, starts it at p_from and keeps assigning               *)
(* x = move_toward(x, p_to, p_delta): result is x and aux.x_before the     *)
(* value x had before the last assignment.                                 *)
(***************************************************************************)
FloatPrecision == 24

\* The largest magnitude up to which every whole number is a float.
FloatExactMax == 2 ^ FloatPrecision

\* The spacing of the floats at magnitude a, from the candidate q on.
RECURSIVE FloatSpacing(_, _)
FloatSpacing(a, q) ==
    IF a < FloatExactMax * q THEN q ELSE FloatSpacing(a, 2 * q)

\* The float nearest to the whole number v, ties to even.
RoundFloat(v) ==
    LET a == ABS(v)
        q == IF a <= FloatExactMax THEN 1 ELSE FloatSpacing(a, 2)
        lower == (a \div q) * q
        rest == a - lower
        rounded == IF 2 * rest < q THEN lower
                   ELSE IF 2 * rest > q THEN lower + q
                   ELSE IF (lower \div q) % 2 = 0 THEN lower
                   ELSE lower + q
    IN  SIGN(v) * rounded

\* sign (lines 679-682): static_cast<T>(SIGN(x)).
sign(x) == SIGN(x)

\* The step taken whatever the distance left.
move_toward_no_snap(p_from, p_to, p_delta) ==
    RoundFloat(p_from + RoundFloat(sign(RoundFloat(p_to - p_from)) * p_delta))

move_toward(p_from, p_to, p_delta) ==
    IF ABS(RoundFloat(p_to - p_from)) <= p_delta
    THEN p_to
    ELSE RoundFloat(p_from + RoundFloat(sign(RoundFloat(p_to - p_from)) * p_delta))

\* The floats within MaxMove of zero and of 2^24, where the spacing of the
\* floats changes from 1 to 2.
MoveBases == {0, FloatExactMax}

MoveArgs(base) ==
    {v \in (base - MaxMove)..(base + MaxMove) : RoundFloat(v) = v}

MoveTowardStart ==
    /\ fn = "none"
    /\ \E base \in MoveBases :
        \E p_from \in MoveArgs(base), p_to \in MoveArgs(base), p_delta \in 0..MaxDelta :
            /\ fn' = "move_toward"
            /\ args' = <<p_from, p_to, p_delta>>
            /\ aux' = [x_before |-> p_from, steps |-> "none"]
            /\ result' = p_from
    /\ UNCHANGED <<precise, pc, t_a, fast_ftoi_b, b_writer, b_read_from, ret>>

MoveTowardStep ==
    /\ fn = "move_toward"
    /\ result' = move_toward(result, args[2], args[3])
    /\ aux' = [x_before |-> result, steps |-> "some"]
    /\ UNCHANGED <<fn, args, precise, pc, t_a, fast_ftoi_b, b_writer, b_read_from, ret>>

(***************************************************************************)
(* wrapi (lines 902-905) on int64_t values far from the ends of the type:  *)
(*     int64_t range = max - min;                                          *)
(*     return range == 0 ? min                                             *)
(*                       : min + ((((value - min) % range) + range) % range) *)
(* wrapi_divisors lists the divisors of the remainders the call evaluates. *)
(***************************************************************************)
\* The remainder taken once: no second pass to lift a negative remainder.
wrapi_single_rem(value, min, max) ==
    LET range == max - min
    IN  IF range = 0 THEN min ELSE min + CRem(value - min, range)

wrapi(value, min, max) ==
    LET range == max - min
    IN  IF range = 0 THEN min
        ELSE min + CRem(CRem(value - min, range) + range, range)

wrapi_divisors(value, min, max) ==
    LET range == max - min
    IN  IF range = 0 THEN <<>> ELSE <<range, range>>

Wrapi ==
    /\ fn = "none"
    /\ \E value \in -MaxWrapValue..MaxWrapValue,
          min \in -MaxWrapEdge..MaxWrapEdge, max \in -MaxWrapEdge..MaxWrapEdge :
        /\ fn' = "wrapi"
        /\ args' = <<value, min, max>>
        /\ aux' = wrapi_divisors(value, min, max)
        /\ result' = wrapi(value, min, max)
    /\ UNCHANGED <<precise, pc, t_a, fast_ftoi_b, b_writer, b_read_from, ret>>

(***************************************************************************)
(* unsigned int: 32 bits, held as <<hi, lo>>, its high and low 16 bits,    *)
(* each in 0..2^16 - 1.  Arithmetic is modulo 2^32, as the machine's.      *)
(***************************************************************************)
UINT_BITS == 32

HalfBits == UINT_BITS \div 2

HalfWord == 2 ^ HalfBits

BitIndex == 0..(UINT_BITS - 1)

\* The unsigned int of value n, for 0 <= n < 2^31.
U32(n) == <<n \div HalfWord, n % HalfWord>>

\* 1u << k
U32Bit(k) == IF k < HalfBits THEN <<0, 2 ^ k>> ELSE <<2 ^ (k - HalfBits), 0>>

\* Bit k of x.
Bit(x, k) ==
    IF k < HalfBits THEN (x[2] \div (2 ^ k)) % 2 = 1
    ELSE (x[1] \div (2 ^ (k - HalfBits))) % 2 = 1

\* x >> n, for 0 <= n < 32.
Shr(x, n) ==
    IF n >= HalfBits THEN <<0, x[1] \div (2 ^ (n - HalfBits))>>
    ELSE <<x[1] \div (2 ^ n),
           (x[2] \div (2 ^ n)) + (x[1] % (2 ^ n)) * (2 ^ (HalfBits - n))>>

\* m | n of two 16-bit halves.
RECURSIVE Or16(_, _)
Or16(m, n) ==
    IF m = 0 THEN n
    ELSE IF n = 0 THEN m
    ELSE MAX(m % 2, n % 2) + 2 * Or16(m \div 2, n \div 2)

\* x | y
BitOr(x, y) == <<Or16(x[1], y[1]), Or16(x[2], y[2])>>

\* x + y modulo 2^32.
Add(x, y) ==
    LET lo == x[2] + y[2]
    IN  <<(x[1] + y[1] + (lo \div HalfWord)) % HalfWord, lo % HalfWord>>

\* x - y modulo 2^32.
Sub(x, y) ==
    LET lo == x[2] - y[2]
        borrow == IF lo < 0 THEN 1 ELSE 0
    IN  <<(x[1] - y[1] - borrow + HalfWord) % HalfWord, (lo + HalfWord) % HalfWord>>

\* x < y, unsigned.
Less(x, y) == x[1] < y[1] \/ (x[1] = y[1] /\ x[2] < y[2])

\* x |= x >> n
SpreadStep(x, n) == BitOr(x, Shr(x, n))

\* The five statements x |= x >> 1; ... x |= x >> 16; (lines 104-108, 115-119).
Spread(x) == SpreadStep(SpreadStep(SpreadStep(SpreadStep(SpreadStep(x, 1), 2), 4), 8), 16)

\* next_power_of_2 without the --x: a power of two is doubled.
next_power_of_2_no_decrement(x) ==
    IF x = U32(0) THEN U32(0) ELSE Add(Spread(x), U32(1))

\* next_power_of_2 (lines 97-111).
next_power_of_2(x) ==
    IF x = U32(0) THEN U32(0)
    ELSE Add(Spread(Sub(x, U32(1))), U32(1))

\* previous_power_of_2 without the last spreading step, x |= x >> 16.
previous_power_of_2_short_spread(x) ==
    LET s == SpreadStep(SpreadStep(SpreadStep(SpreadStep(x, 1), 2), 4), 8)
    IN  Sub(s, Shr(s, 1))

\* previous_power_of_2 (lines 113-121).
previous_power_of_2(x) ==
    LET s == Spread(x)
    IN  Sub(s, Shr(s, 1))

\* closest_power_of_2 with >= for >: a tie picks the previous power.
closest_power_of_2_ties_down(x) ==
    LET nx == next_power_of_2(x)
        px == previous_power_of_2(x)
    IN  IF ~Less(Sub(nx, x), Sub(x, px)) THEN px ELSE nx

\* closest_power_of_2 (lines 123-128): (nx - x) > (x - px) ? px : nx
closest_power_of_2(x) ==
    LET nx == next_power_of_2(x)
        px == previous_power_of_2(x)
    IN  IF Less(Sub(x, px), Sub(nx, x)) THEN px ELSE nx

\* d as an unsigned int added to x, for a small signed d.
Offset(x, d) == IF d >= 0 THEN Add(x, U32(d)) ELSE Sub(x, U32(-d))

BitArgs ==
    {Offset(Add(U32Bit(k), U32Bit(j)), d) :
        <<k, j>> \in {kj \in BitIndex \X BitIndex : kj[2] <= kj[1]},
        d \in -MaxOff..MaxOff}

NextPowerOf2 ==
    /\ fn = "none"
    /\ \E x \in BitArgs :
        /\ fn' = "next_power_of_2"
        /\ args' = <<x>>
        /\ aux' = <<>>
        /\ result' = next_power_of_2(x)
    /\ UNCHANGED <<precise, pc, t_a, fast_ftoi_b, b_writer, b_read_from, ret>>

PreviousPowerOf2 ==
    /\ fn = "none"
    /\ \E x \in BitArgs :
        /\ fn' = "previous_power_of_2"
        /\ args' = <<x>>
        /\ aux' = <<>>
        /\ result' = previous_power_of_2(x)
    /\ UNCHANGED <<precise, pc, t_a, fast_ftoi_b, b_writer, b_read_from, ret>>

ClosestPowerOf2 ==
    /\ fn = "none"
    /\ \E x \in BitArgs :
        /\ fn' = "closest_power_of_2"
        /\ args' = <<x>>
        /\ aux' = [nx |-> next_power_of_2(x), px |-> previous_power_of_2(x)]
        /\ result' = closest_power_of_2(x)
    /\ UNCHANGED <<precise, pc, t_a, fast_ftoi_b, b_writer, b_read_from, ret>>

\* The loop of get_shift_from_power_of_2 from index i on, with `bound`
\* iterations in all:
\*     for (unsigned int i = 0; i < 32; i++)
\*         if (p_bits == (unsigned int)(1 << i)) return i;
\*     return -1;
RECURSIVE get_shift_loop(_, _, _)
get_shift_loop(p_bits, i, bound) ==
    IF i >= bound THEN -1
    ELSE IF p_bits = U32Bit(i) THEN i
    ELSE get_shift_loop(p_bits, i + 1, bound)

\* The loop stopping at i < 31: bit 31 is never compared.
get_shift_from_power_of_2_short(p_bits) == get_shift_loop(p_bits, 0, UINT_BITS - 1)

\* get_shift_from_power_of_2 (lines 130-139).
get_shift_from_power_of_2(p_bits) == get_shift_loop(p_bits, 0, UINT_BITS)

GetShiftFromPowerOf2 ==
    /\ fn = "none"
    /\ \E p_bits \in BitArgs :
        /\ fn' = "get_shift_from_power_of_2"
        /\ args' = <<p_bits>>
        /\ aux' = <<>>
        /\ result' = get_shift_from_power_of_2(p_bits)
    /\ UNCHANGED <<precise, pc, t_a, fast_ftoi_b, b_writer, b_read_from, ret>>

(***************************************************************************)
(* BSWAP16, BSWAP32, BSWAP64 (lines 184-204).  An n-byte word is the       *)
(* sequence of its bytes, the least significant first: x[i + 1] is byte i. *)
(* Every shift of the code is by a multiple of 8 bits and moves bytes;     *)
(* every mask is applied byte by byte.  With __GNUC__ defined the macros   *)
(* expand to __builtin_bswap16/32/64, otherwise to the functions below;    *)
(* gnuc says which build the call is made in.                              *)
(***************************************************************************)
ByteBits == 8

ByteValues == 0..(2 ^ ByteBits - 1)

\* m & n of two bytes.
RECURSIVE And8(_, _)
And8(m, n) ==
    IF m = 0 \/ n = 0 THEN 0
    ELSE MIN(m % 2, n % 2) + 2 * And8(m \div 2, n \div 2)

\* x << bits and x >> bits within the width of x.
WordShl(x, bits) ==
    LET k == bits \div ByteBits
    IN  [i \in 1..Len(x) |-> IF i > k THEN x[i - k] ELSE 0]

WordShr(x, bits) ==
    LET k == bits \div ByteBits
    IN  [i \in 1..Len(x) |-> IF i + k <= Len(x) THEN x[i + k] ELSE 0]

\* x & mask and x | y.
WordAnd(x, mask) == [i \in 1..Len(x) |-> And8(x[i], mask[i])]

WordOr(x, y) == [i \in 1..Len(x) |-> Or16(x[i], y[i])]

\* The conversion of x to an unsigned type of n bytes: zero extension or
\* truncation.
WordConvert(x, n) == [i \in 1..n |-> IF i <= Len(x) THEN x[i] ELSE 0]

\* The masks of the code, least significant byte first.
Mask_00FF0000 == <<0, 0, 255, 0>>

Mask_0000FF00 == <<0, 255, 0, 0>>

Mask_00000000FFFFFFFF == <<255, 255, 255, 255, 0, 0, 0, 0>>

Mask_FFFFFFFF00000000 == <<0, 0, 0, 0, 255, 255, 255, 255>>

Mask_0000FFFF0000FFFF == <<255, 255, 0, 0, 255, 255, 0, 0>>

Mask_FFFF0000FFFF0000 == <<0, 0, 255, 255, 0, 0, 255, 255>>

Mask_00FF00FF00FF00FF == <<255, 0, 255, 0, 255, 0, 255, 0>>

Mask_FF00FF00FF00FF00 == <<0, 255, 0, 255, 0, 255, 0, 255>>

\* __builtin_bswap16/32/64: the bytes of x in reverse order.
builtin_bswap(x) == [i \in 1..Len(x) |-> x[Len(x) + 1 - i]]

\* return (x >> 8) | (x << 8);  x is promoted to int, the result converted
\* to uint16_t.
BSWAP16_function(x) ==
    LET promoted == WordConvert(x, 4)
    IN  WordConvert(WordOr(WordShr(promoted, 8), WordShl(promoted, 8)), 2)

\* BSWAP32 with the two masks left out.
BSWAP32_unmasked(x) ==
    WordOr(WordOr(WordShl(x, 24), WordShl(x, 8)),
           WordOr(WordShr(x, 8), WordShr(x, 24)))

\* return ((x << 24) | ((x << 8) & 0x00FF0000) | ((x >> 8) & 0x0000FF00)
\*         | (x >> 24));
BSWAP32_function(x) ==
    WordOr(WordOr(WordShl(x, 24), WordAnd(WordShl(x, 8), Mask_00FF0000)),
           WordOr(WordAnd(WordShr(x, 8), Mask_0000FF00), WordShr(x, 24)))

\* x = (x & 0x00000000FFFFFFFF) << 32 | (x & 0xFFFFFFFF00000000) >> 32;
\* x = (x & 0x0000FFFF0000FFFF) << 16 | (x & 0xFFFF0000FFFF0000) >> 16;
\* x = (x & 0x00FF00FF00FF00FF) << 8  | (x & 0xFF00FF00FF00FF00) >> 8;
BSWAP64_function(x) ==
    LET x1 == WordOr(WordShl(WordAnd(x, Mask_00000000FFFFFFFF), 32),
                     WordShr(WordAnd(x, Mask_FFFFFFFF00000000), 32))
        x2 == WordOr(WordShl(WordAnd(x1, Mask_0000FFFF0000FFFF), 16),
                     WordShr(WordAnd(x1, Mask_FFFF0000FFFF0000), 16))
    IN  WordOr(WordShl(WordAnd(x2, Mask_00FF00FF00FF00FF), 8),
               WordShr(WordAnd(x2, Mask_FF00FF00FF00FF00), 8))

BSWAP16(x, gnuc) == IF gnuc THEN builtin_bswap(x) ELSE BSWAP16_function(x)

BSWAP32(x, gnuc) == IF gnuc THEN builtin_bswap(x) ELSE BSWAP32_function(x)

BSWAP64(x, gnuc) == IF gnuc THEN builtin_bswap(x) ELSE BSWAP64_function(x)

\* The operands of the calls: every uint16_t; the uint32_t with bytes among
\* 0x00, 0x01, 0x7F, 0x80, 0xFE, 0xFF; the uint64_t with bytes among 0x00,
\* 0xFF and those whose bytes rise from any first byte in steps of 1 or 37.
ByteSamples == {0, 1, 127, 128, 254, 255}

ByteRamp(first, step) == [i \in 1..8 |-> (first + (i - 1) * step) % (2 ^ ByteBits)]

Words16 == [1..2 -> ByteValues]

Words32 == [1..4 -> ByteSamples]

Words64 ==
    [1..8 -> {0, 255}]
        \cup {ByteRamp(first, step) : first \in ByteValues, step \in {1, 37}}

\* Each call is followed by the call on its result: aux is BSWAP(BSWAP(x)).
Bswap16 ==
    /\ fn = "none"
    /\ \E x \in Words16, gnuc \in BOOLEAN :
        /\ fn' = "BSWAP16"
        /\ args' = <<x, gnuc>>
        /\ result' = BSWAP16(x, gnuc)
        /\ aux' = BSWAP16(BSWAP16(x, gnuc), gnuc)
    /\ UNCHANGED <<precise, pc, t_a, fast_ftoi_b, b_writer, b_read_from, ret>>

Bswap32 ==
    /\ fn = "none"
    /\ \E x \in Words32, gnuc \in BOOLEAN :
        /\ fn' = "BSWAP32"
        /\ args' = <<x, gnuc>>
        /\ result' = BSWAP32(x, gnuc)
        /\ aux' = BSWAP32(BSWAP32(x, gnuc), gnuc)
    /\ UNCHANGED <<precise, pc, t_a, fast_ftoi_b, b_writer, b_read_from, ret>>

Bswap64 ==
    /\ fn = "none"
    /\ \E x \in Words64, gnuc \in BOOLEAN :
        /\ fn' = "BSWAP64"
        /\ args' = <<x, gnuc>>
        /\ result' = BSWAP64(x, gnuc)
        /\ aux' = BSWAP64(BSWAP64(x, gnuc), gnuc)
    /\ UNCHANGED <<precise, pc, t_a, fast_ftoi_b, b_writer, b_read_from, ret>>

(***************************************************************************)
(* Exact decimal values for the approximate comparisons, whose arguments   *)
(* range from 1e-7 to 1e10.  A magnitude is a natural number of units of   *)
(* 10^-12, held in limbs of four decimal digits, least significant first,  *)
(* without leading zero limbs (zero is <<>>).                              *)
(***************************************************************************)
LimbBase == 10 ^ 4

\* Twelve fractional digits: three limbs.
FracLimbs == 12 \div 4

RECURSIVE NatStrip(_)
NatStrip(x) ==
    IF x = <<>> THEN <<>>
    ELSE IF x[Len(x)] = 0 THEN NatStrip(SubSeq(x, 1, Len(x) - 1))
    ELSE x

RECURSIVE NatAddC(_, _, _)
NatAddC(x, y, carry) ==
    IF x = <<>> /\ y = <<>> THEN (IF carry = 0 THEN <<>> ELSE <<carry>>)
    ELSE LET xd == IF x = <<>> THEN 0 ELSE Head(x)
             yd == IF y = <<>> THEN 0 ELSE Head(y)
             sum == xd + yd + carry
         IN  <<sum % LimbBase>> \o
                NatAddC(IF x = <<>> THEN <<>> ELSE Tail(x),
                        IF y = <<>> THEN <<>> ELSE Tail(y),
                        sum \div LimbBase)

NatAdd(x, y) == NatAddC(x, y, 0)

\* x - y - borrow, for x >= y + borrow; leading zero limbs are left in place.
RECURSIVE NatSubB(_, _, _)
NatSubB(x, y, borrow) ==
    IF x = <<>> THEN <<>>
    ELSE LET yd == IF y = <<>> THEN 0 ELSE Head(y)
             diff == Head(x) - yd - borrow
         IN  <<(diff + LimbBase) % LimbBase>> \o
                NatSubB(Tail(x), IF y = <<>> THEN <<>> ELSE Tail(y),
                        IF diff < 0 THEN 1 ELSE 0)

NatSub(x, y) == NatStrip(NatSubB(x, y, 0))

\* x < y: the shorter is the smaller; of equal lengths the top limbs decide.
RECURSIVE NatLess(_, _)
NatLess(x, y) ==
    IF Len(x) # Len(y) THEN Len(x) < Len(y)
    ELSE IF x = <<>> THEN FALSE
    ELSE IF x[Len(x)] # y[Len(y)] THEN x[Len(x)] < y[Len(y)]
    ELSE NatLess(NatStrip(SubSeq(x, 1, Len(x) - 1)), NatStrip(SubSeq(y, 1, Len(y) - 1)))

\* x * m for one limb m.
RECURSIVE NatMulLimbC(_, _, _)
NatMulLimbC(x, m, carry) ==
    IF x = <<>> THEN (IF carry = 0 THEN <<>> ELSE <<carry>>)
    ELSE LET prod == Head(x) * m + carry
         IN  <<prod % LimbBase>> \o NatMulLimbC(Tail(x), m, prod \div LimbBase)

NatMulLimb(x, m) == NatStrip(NatMulLimbC(x, m, 0))

\* x * LimbBase^k
NatShiftUp(x, k) == IF x = <<>> THEN <<>> ELSE [i \in 1..k |-> 0] \o x

\* x / LimbBase^k, the low limbs dropped.
NatShiftDown(x, k) == IF Len(x) <= k THEN <<>> ELSE SubSeq(x, k + 1, Len(x))

RECURSIVE NatMul(_, _)
NatMul(x, y) ==
    IF y = <<>> THEN <<>>
    ELSE NatAdd(NatMulLimb(x, Head(y)), NatShiftUp(NatMul(x, Tail(y)), 1))

(***************************************************************************)
(* A float/double value: finite (a sign and a magnitude; zero has no       *)
(* sign), an infinity, or a NaN.                                           *)
(***************************************************************************)
Fin(neg, mag) == [kind |-> "fin", neg |-> neg /\ mag # <<>>, mag |-> mag]

Inf(neg) == [kind |-> "inf", neg |-> neg, mag |-> <<>>]

NaN == [kind |-> "nan", neg |-> FALSE, mag |-> <<>>]

\* m * 10^e, for a natural m < LimbBase and -12 <= e.
Dec(m, e) ==
    LET digits == e + 4 * FracLimbs
    IN  Fin(FALSE, NatShiftUp(NatMulLimb(NatMulLimb(<<1>>, 10 ^ (digits % 4)), m),
                              digits \div 4))

RealNeg(x) == IF x.kind = "nan" THEN NaN ELSE [x EXCEPT !.neg = ~x.neg /\ (x.kind = "inf" \/ x.mag # <<>>)]

\* std::abs
RealAbs(x) == IF x.kind = "nan" THEN NaN ELSE [x EXCEPT !.neg = FALSE]

\* a == b: false when either is a NaN.
RealEq(x, y) == x.kind # "nan" /\ y.kind # "nan" /\ x = y

\* a < b: false when either is a NaN.
RealLess(x, y) ==
    IF x.kind = "nan" \/ y.kind = "nan" THEN FALSE
    ELSE IF x = y THEN FALSE
    ELSE IF x.kind = "inf" THEN x.neg
    ELSE IF y.kind = "inf" THEN ~y.neg
    ELSE IF x.neg # y.neg THEN x.neg
    ELSE IF x.neg THEN NatLess(y.mag, x.mag)
    ELSE NatLess(x.mag, y.mag)

\* a + b
RealAdd(x, y) ==
    IF x.kind = "nan" \/ y.kind = "nan" THEN NaN
    ELSE IF x.kind = "inf" /\ y.kind = "inf" THEN (IF x.neg = y.neg THEN x ELSE NaN)
    ELSE IF x.kind = "inf" THEN x
    ELSE IF y.kind = "inf" THEN y
    ELSE IF x.neg = y.neg THEN Fin(x.neg, NatAdd(x.mag, y.mag))
    ELSE IF NatLess(x.mag, y.mag) THEN Fin(y.neg, NatSub(y.mag, x.mag))
    ELSE Fin(x.neg, NatSub(x.mag, y.mag))

\* a - b
RealSub(x, y) == RealAdd(x, RealNeg(y))

\* a * b; the product of the modelled values has at most twelve fractional
\* digits, so dropping the low limbs loses nothing.
RealMul(x, y) ==
    IF x.kind = "nan" \/ y.kind = "nan" THEN NaN
    ELSE IF x.kind = "inf" \/ y.kind = "inf" THEN
        (IF (x.kind = "fin" /\ x.mag = <<>>) \/ (y.kind = "fin" /\ y.mag = <<>>)
         THEN NaN ELSE Inf(x.neg # y.neg))
    ELSE Fin(x.neg # y.neg, NatShiftDown(NatMul(x.mag, y.mag), FracLimbs))

(***************************************************************************)
(* The epsilons (lines 208-219).  CMP_EPSILON is 0.00001f in every build;  *)
(* PRECISE_MATH_CHECKS selects UNIT_EPSILON only.                          *)
(***************************************************************************)
\* An epsilon that follows the build switch: 1e-5 precise, 1e-3 tolerant.
CMP_EPSILON_switched == IF precise THEN Dec(1, -5) ELSE Dec(1, -3)

CMP_EPSILON == Dec(1, -5)

UNIT_EPSILON == IF precise THEN Dec(1, -5) ELSE Dec(1, -3)

\* is_equal_approx without the test for exact equality.
is_equal_approx_no_fast_path(a, b) ==
    LET scaled == RealMul(CMP_EPSILON, RealAbs(a))
        tolerance == IF RealLess(scaled, CMP_EPSILON) THEN CMP_EPSILON ELSE scaled
    IN  RealLess(RealAbs(RealSub(a, b)), tolerance)

\* is_equal_approx(a, b) (lines 733-744 float, 759-770 double).
is_equal_approx(a, b) ==
    IF RealEq(a, b) THEN TRUE
    ELSE LET scaled == RealMul(CMP_EPSILON, RealAbs(a))
             tolerance == IF RealLess(scaled, CMP_EPSILON) THEN CMP_EPSILON ELSE scaled
         IN  RealLess(RealAbs(RealSub(a, b)), tolerance)

\* is_zero_approx(s) (lines 755-757 float, 781-783 double).
is_zero_approx(s) == RealLess(RealAbs(s), CMP_EPSILON)

\* A Radian or a Degree: the wrapped real_t, tagged with its unit.
Angle(unit, value) == [unit |-> unit, value |-> value]

\* operator real_t() of Radian (line 253) and of Degree (line 279): the
\* wrapped value as it is, in the unit of its type.
AsReal(x) == x.value

\* is_equal_approx(Radian, Radian) (lines 785-796) and
\* is_equal_approx(Degree, Degree) (lines 811-822): every operand converts
\* through operator real_t.
is_equal_approx_angle(a, b) == is_equal_approx(AsReal(a), AsReal(b))

Magnitudes == {Dec(m, e) : m \in (1..MaxMant) \cup {5}, e \in Exponents}

FiniteArgs == {Dec(0, 0)} \cup Magnitudes \cup {RealNeg(x) : x \in Magnitudes}

RealArgs == FiniteArgs \cup {Inf(FALSE), Inf(TRUE)}

IsEqualApprox ==
    /\ fn = "none"
    /\ \E a \in RealArgs :
       \E b \in RealArgs \cup {RealAdd(a, d) : d \in FiniteArgs} :
        /\ fn' = "is_equal_approx"
        /\ args' = <<a, b>>
        /\ aux' = <<>>
        /\ result' = is_equal_approx(a, b)
    /\ UNCHANGED <<precise, pc, t_a, fast_ftoi_b, b_writer, b_read_from, ret>>

IsEqualApproxAngle ==
    /\ fn = "none"
    /\ \E unit \in {"Radian", "Degree"}, a \in RealArgs, d \in FiniteArgs :
        /\ fn' = "is_equal_approx_angle"
        /\ args' = <<Angle(unit, a), Angle(unit, RealAdd(a, d))>>
        /\ aux' = <<>>
        /\ result' = is_equal_approx_angle(Angle(unit, a), Angle(unit, RealAdd(a, d)))
    /\ UNCHANGED <<precise, pc, t_a, fast_ftoi_b, b_writer, b_read_from, ret>>

IsZeroApprox ==
    /\ fn = "none"
    /\ \E s \in RealArgs :
        /\ fn' = "is_zero_approx"
        /\ args' = <<s>>
        /\ aux' = <<>>
        /\ result' = is_zero_approx(s)
    /\ UNCHANGED <<precise, pc, t_a, fast_ftoi_b, b_writer, b_read_from, ret>>

(***************************************************************************)
(* fast_ftoi (lines 945-967), the #else branch: b = lrintf(a); return b;   *)
(* with `static int b`.  lrintf rounds to nearest, ties to even (the       *)
(* default rounding mode).  The argument h counts halves: a = h / 2.       *)
(***************************************************************************)
lrintf(h) ==
    LET fl == IF h >= 0 THEN h \div 2 ELSE -((-h + 1) \div 2)
    IN  IF h % 2 = 0 THEN fl
        ELSE IF fl % 2 = 0 THEN fl ELSE fl + 1

\* A thread enters fast_ftoi(a).
FtoiCall(t) ==
    /\ pc[t] = "idle"
    /\ \E h \in -MaxHalf..MaxHalf : t_a' = [t_a EXCEPT ![t] = h]
    /\ pc' = [pc EXCEPT ![t] = "store"]
    /\ UNCHANGED <<fast_ftoi_b, b_writer, b_read_from, ret>>
    /\ UNCHANGED <<precise, fn, args, result, aux>>

\* b = lrintf(a): a store to the static shared by every call.
FtoiStore(t) ==
    /\ pc[t] = "store"
    /\ fast_ftoi_b' = lrintf(t_a[t])
    /\ b_writer' = t
    /\ pc' = [pc EXCEPT ![t] = "load"]
    /\ UNCHANGED <<t_a, b_read_from, ret>>
    /\ UNCHANGED <<precise, fn, args, result, aux>>

\* return b: a load from the static.
FtoiLoad(t) ==
    /\ pc[t] = "load"
    /\ ret' = [ret EXCEPT ![t] = fast_ftoi_b]
    /\ b_read_from' = [b_read_from EXCEPT ![t] = b_writer]
    /\ pc' = [pc EXCEPT ![t] = "done"]
    /\ UNCHANGED <<t_a, fast_ftoi_b, b_writer>>
    /\ UNCHANGED <<precise, fn, args, result, aux>>

\* The caller takes the value; the thread may call again.
FtoiReturn(t) ==
    /\ pc[t] = "done"
    /\ pc' = [pc EXCEPT ![t] = "idle"]
    /\ UNCHANGED <<t_a, fast_ftoi_b, b_writer, b_read_from, ret>>
    /\ UNCHANGED <<precise, fn, args, result, aux>>

\* The call returns; its record is dropped and the next call may start.
Return ==
    /\ fn # "none"
    /\ fn' = "none"
    /\ args' = <<>>
    /\ result' = 0
    /\ aux' = <<>>
    /\ UNCHANGED <<precise, pc, t_a, fast_ftoi_b, b_writer, b_read_from, ret>>

InitCall ==
    /\ fn = "none"
    /\ args = <<>>
    /\ result = 0
    /\ aux = <<>>

InitFtoi ==
    /\ pc = [t \in Threads |-> "idle"]
    /\ t_a = [t \in Threads |-> 0]
    /\ fast_ftoi_b = 0
    /\ b_writer = 0
    /\ b_read_from = [t \in Threads |-> 0]
    /\ ret = [t \in Threads |-> 0]

Init ==
    /\ precise \in BOOLEAN
    /\ InitCall
    /\ InitFtoi

\* Every function of the model.  The claims are checked under the
\* specification of the family each is about.
Next ==
    \/ LerpAngle
    \/ LerpAngleDegree
    \/ CubicInterpolateInTime
    \/ CubicInterpolateAngle
    \/ CubicInterpolateAngleInTime
    \/ MoveTowardStart
    \/ MoveTowardStep
    \/ Wrapi
    \/ Fposmodp
    \/ Posmod
    \/ NextPowerOf2
    \/ PreviousPowerOf2
    \/ ClosestPowerOf2
    \/ GetShiftFromPowerOf2
    \/ Bswap16
    \/ Bswap32
    \/ Bswap64
    \/ IsEqualApprox
    \/ IsEqualApproxAngle
    \/ IsZeroApprox
    \/ Return
    \/ \E t \in Threads : FtoiCall(t)
    \/ \E t \in Threads : FtoiStore(t)
    \/ \E t \in Threads : FtoiLoad(t)
    \/ \E t \in Threads : FtoiReturn(t)

Spec == Init /\ [][Next]_vars

NextFtoi ==
    \/ \E t \in Threads : FtoiCall(t)
    \/ \E t \in Threads : FtoiStore(t)
    \/ \E t \in Threads : FtoiLoad(t)
    \/ \E t \in Threads : FtoiReturn(t)

SpecFtoi == Init /\ [][NextFtoi]_vars

NextAngle ==
    \/ LerpAngle
    \/ LerpAngleDegree
    \/ Return

SpecAngle == Init /\ [][NextAngle]_vars

\* x is congruent to y modulo m.
Congruent(x, y, m) == (x - y) % m = 0

\* C2: for the radian-valued lerp_angle and all from, to: the distance
\* interpolated along is at most half a turn in magnitude and congruent to
\* to - from modulo TAU; the result is from at weight 0 and congruent to
\* `to` modulo TAU at weight 1; from 350 degrees to 10 degrees at weight 0.5
\* the result is congruent to 0 degrees, not 180 degrees.
C2_ShortestArc ==
    fn = "lerp_angle" =>
        LET p_from == args[1]
            p_to == args[2]
            p_weight == args[3]
        IN  /\ aux.difference = fmod(p_to - p_from, Math_TAU)
            /\ 2 * ABS(aux.distance) <= Math_TAU
            /\ Congruent(aux.distance, p_to - p_from, Math_TAU)
            /\ p_weight = <<0, 1>> => result = RatInt(p_from)
            /\ p_weight = <<1, 1>> =>
                result[2] = 1 /\ Congruent(result[1], p_to, Math_TAU)
            /\ (p_from = 35 /\ p_to = 1 /\ p_weight = <<1, 2>>) =>
                /\ result[2] = 1
                /\ Congruent(result[1], 0, Math_TAU)
                /\ ~Congruent(result[1], Math_PI, Math_TAU)

\* C2's case: 350 degrees to 10 degrees at weight 0.5 gives 360 degrees, and
\* the same pair taken two turns apart still moves by the short arc.
C2_Witness ==
    /\ fn = "lerp_angle"
    /\ args = <<35, 1, <<1, 2>>>>
    /\ aux.distance = 2
    /\ result = <<36, 1>>

\* The rational r is congruent to the integer y modulo m.
RatCongruent(r, y, m) ==
    /\ IsFinite(r)
    /\ (r[1] - y * r[2]) % (m * ABS(r[2])) = 0

\* C16: the Degree overload of lerp_angle is shortest-arc in degrees: the
\* distance it interpolates along is congruent to to - from modulo 360
\* degrees and at most 180 degrees in magnitude, so that
\* lerp_angle(Degree(350), Degree(10), 0.5) is congruent to 0 degrees
\* modulo 360, and lerp_angle(from, to, 1) to `to`.
C16_DegreeShortestArc ==
    fn = "lerp_angle_Degree" =>
        LET p_from == args[1]
            p_to == args[2]
            p_weight == args[3]
        IN  /\ Congruent(aux.distance, p_to - p_from, Degree(360))
            /\ ABS(aux.distance) <= Degree(180)
            /\ (p_from = Degree(350) /\ p_to = Degree(10) /\ p_weight = <<1, 2>>)
                    => RatCongruent(result, 0, Degree(360))
            /\ p_weight = <<1, 1>> => RatCongruent(result, p_to, Degree(360))

\* C16's failing call: lerp_angle(Degree(350), Degree(10), 0.5) moves by
\* half of -0.70774 degrees and returns 349.64613 degrees.
C16_Degree350To10 ==
    /\ fn = "lerp_angle_Degree"
    /\ args = <<Degree(350), Degree(10), <<1, 2>>>>
    /\ aux.distance = -70774
    /\ result = <<34964613, 1>>

NextCubic ==
    \/ CubicInterpolateInTime
    \/ Return

SpecCubic == Init /\ [][NextCubic]_vars

\* The time spans of the call are non-degenerate: no denominator vanishes.
NonDegenerate(p_to_t, p_pre_t, p_post_t) ==
    /\ p_pre_t # 0
    /\ p_to_t # 0
    /\ p_post_t # 0
    /\ p_post_t # p_to_t
    /\ p_to_t # p_pre_t

\* C5: for non-degenerate time spans cubic_interpolate_in_time returns
\* exactly `from` at weight 0 and exactly `to` at weight 1, whatever pre and
\* post are.
C5_Endpoints ==
    (fn = "cubic_interpolate_in_time" /\ NonDegenerate(args[6], args[7], args[8])) =>
        /\ args[5] = <<0, 1>> => result = RatInt(args[1])
        /\ args[5] = <<1, 1>> => result = RatInt(args[2])

\* C5's case: a call at weight 1 with non-degenerate, unequal spans and with
\* pre and post different from both ends returns `to`.
C5_Witness ==
    /\ fn = "cubic_interpolate_in_time"
    /\ args = <<-1, 1, 2, -2, <<1, 1>>, 1, -1, 2>>
    /\ result = <<1, 1>>

\* The denominators the six blend parameters divide by, from the arguments.
CitDenominators(p_to_t, p_pre_t, p_post_t) ==
    [a1 |-> -p_pre_t, a2 |-> p_to_t, a3 |-> p_post_t - p_to_t,
     b1 |-> p_to_t - p_pre_t, b2 |-> p_post_t, c |-> p_to_t]

\* The constant that stands in for each parameter: 0.0, 0.5 or 1.0.
CitConstants ==
    [a1 |-> <<0, 1>>, a2 |-> <<1, 2>>, a3 |-> <<1, 1>>,
     b1 |-> <<0, 1>>, b2 |-> <<1, 1>>, c |-> <<1, 2>>]

\* C6: for every combination of inputs to cubic_interpolate_in_time no
\* division with a zero denominator is evaluated: each of the six blend
\* parameters is its fixed constant exactly when its own denominator is
\* zero and is computed by division otherwise, so the result is finite.
C6_NoZeroDivision ==
    fn = "cubic_interpolate_in_time" =>
        LET den == CitDenominators(args[6], args[7], args[8])
        IN  /\ \A k \in DOMAIN aux :
                /\ aux[k].den = RatInt(den[k])
                /\ aux[k].divided <=> den[k] # 0
                /\ ~aux[k].divided => aux[k].value = CitConstants[k]
                /\ IsFinite(aux[k].value)
            /\ IsFinite(result)

\* C6's case: every span is degenerate at once (pre_t = to_t = post_t = 0),
\* all six parameters are their constants and the result is defined.
C6_Witness ==
    /\ fn = "cubic_interpolate_in_time"
    /\ args[6] = 0 /\ args[7] = 0 /\ args[8] = 0
    /\ \A k \in DOMAIN aux : ~aux[k].divided
    /\ args[1] # args[2]
    /\ IsFinite(result)

NextWrap ==
    \/ Wrapi
    \/ Fposmodp
    \/ Posmod
    \/ Return

SpecWrap == Init /\ [][NextWrap]_vars

C7_WitnessEmptyRange ==
    /\ fn = "wrapi"
    /\ args = <<7, 2, 2>>
    /\ result = 2

C12_WitnessNegativeDivisor ==
    /\ fn = "fposmodp"
    /\ args = <<-1, -3>>
    /\ result = -4

\* C13: posmod(x, y) and wrapi(value, min, max) raise no error signal for
\* any input, a zero divisor y == 0 and an empty range max == min included:
\* they return a value and evaluate no integer remainder by zero; for
\* y != 0 posmod(x, y) is congruent to x modulo y, and is zero or has the
\* sign of y, with magnitude below |y|.
C13_NoErrorSignal ==
    /\ fn = "wrapi" => \A i \in DOMAIN aux : aux[i] # 0
    /\ fn = "posmod" =>
        LET p_x == args[1]
            p_y == args[2]
        IN  /\ aux.signal = "none"
            /\ \A i \in DOMAIN aux.divisors : aux.divisors[i] # 0
            /\ p_y # 0 =>
                /\ Congruent(result, p_x, ABS(p_y))
                /\ result = 0 \/ SIGN(result) = SIGN(p_y)
                /\ ABS(result) < ABS(p_y)

\* C13's failing call: posmod(1, 0) evaluates 1 % 0.
C13_RemainderByZero ==
    /\ fn = "posmod"
    /\ args = <<1, 0>>
    /\ aux.divisors = <<0>>

\* The part of C13 that posmod meets: its result for y != 0.
C13_PosmodNonZeroDivisor ==
    (fn = "posmod" /\ args[2] # 0) =>
        /\ aux.signal = "none"
        /\ Congruent(result, args[1], ABS(args[2]))
        /\ result = 0 \/ SIGN(result) = SIGN(args[2])
        /\ ABS(result) < ABS(args[2])

NextCubicAngle ==
    \/ CubicInterpolateAngle
    \/ CubicInterpolateAngleInTime
    \/ Return

SpecCubicAngle == Init /\ [][NextCubicAngle]_vars

\* What C15 says of from_rot, pre_rot and to_rot: from_rot is
\* fmod(from, TAU), pre_rot and to_rot are congruent to pre and to modulo
\* TAU and within half a turn of from_rot, post_rot is congruent to post.
CubicAngleCommon ==
    LET p_from == args[1]
        p_to == args[2]
        p_pre == args[3]
        p_post == args[4]
    IN  /\ aux.from_rot = fmod(p_from, Math_TAU)
        /\ Congruent(aux.pre_rot, p_pre, Math_TAU)
        /\ Congruent(aux.to_rot, p_to, Math_TAU)
        /\ Congruent(aux.post_rot, p_post, Math_TAU)
        /\ ABS(aux.pre_rot - aux.from_rot) <= Math_PI
        /\ ABS(aux.to_rot - aux.from_rot) <= Math_PI

\* The four values are the ones the cubic routine is called on.
CubicAngleHandedOn ==
    LET from_rot == RatInt(aux.from_rot)
        to_rot == RatInt(aux.to_rot)
        pre_rot == RatInt(aux.pre_rot)
        post_rot == RatInt(aux.post_rot)
    IN  /\ fn = "cubic_interpolate_angle" =>
            result = cubic_interpolate(from_rot, to_rot, pre_rot, post_rot, args[5])
        /\ fn = "cubic_interpolate_angle_in_time" =>
            result = cubic_interpolate_in_time(from_rot, to_rot, pre_rot, post_rot,
                        args[5], RatInt(args[6]), RatInt(args[7]), RatInt(args[8]))

\* C15: in cubic_interpolate_angle and cubic_interpolate_angle_in_time the
\* values handed to the cubic routine are from_rot = fmod(from, TAU) and
\* pre_rot, to_rot, post_rot, each congruent to its input modulo TAU and
\* each within half a turn of from_rot: |pre_rot - from_rot| <= TAU/2,
\* |to_rot - from_rot| <= TAU/2 and |post_rot - from_rot| <= TAU/2.
C15_AllNearFrom ==
    fn \in {"cubic_interpolate_angle", "cubic_interpolate_angle_in_time"} =>
        /\ CubicAngleCommon
        /\ CubicAngleHandedOn
        /\ ABS(aux.post_rot - aux.from_rot) <= Math_PI

\* C15, amended: as above for from_rot, pre_rot and to_rot; post_rot is
\* congruent to post modulo TAU and within half a turn of to_rot,
\* |post_rot - to_rot| <= TAU/2, hence within a full turn of from_rot.
C15_PostNearTo ==
    fn \in {"cubic_interpolate_angle", "cubic_interpolate_angle_in_time"} =>
        /\ CubicAngleCommon
        /\ CubicAngleHandedOn
        /\ ABS(aux.post_rot - aux.to_rot) <= Math_PI
        /\ ABS(aux.post_rot - aux.from_rot) <= Math_TAU

\* C15's case: from 0, to a third of a turn on, post two thirds of a turn
\* on, pre a third of a turn back: post_rot is two thirds of a turn from
\* from_rot and a third from to_rot.
C15_Witness ==
    /\ fn = "cubic_interpolate_angle"
    /\ args = <<0, 12, -12, 24, <<1, 2>>>>
    /\ aux = [from_rot |-> 0, pre_rot |-> -12, to_rot |-> 12, post_rot |-> 24]

\* The same case through cubic_interpolate_angle_in_time, from an angle
\* more than a turn from zero.
C15_WitnessInTime ==
    /\ fn = "cubic_interpolate_angle_in_time"
    /\ args[1] = Math_TAU + 6
    /\ args[2] = 18
    /\ args[4] = 30
    /\ aux.from_rot = 6
    /\ aux.to_rot = 18
    /\ aux.post_rot = 30

NextMove ==
    \/ MoveTowardStart
    \/ MoveTowardStep

\* The caller keeps applying move_toward: a step that would change x is
\* eventually taken.
SpecMove == Init /\ [][NextMove]_vars /\ WF_vars(MoveTowardStep)

\* One application x' = move_toward(x, to, delta) with delta > 0.
MoveTowardStepRule ==
    LET x == result
        xNext == result'
        p_to == args[2]
        p_delta == args[3]
    IN  /\ ABS(xNext - x) <= p_delta
        /\ ABS(p_to - xNext) <= ABS(p_to - x)
        /\ x <= p_to => xNext <= p_to
        /\ x >= p_to => xNext >= p_to
        /\ xNext = p_to <=> ABS(p_to - x) <= p_delta
        /\ x = p_to => xNext = p_to

\* C17: for all from, to and every delta > 0, under repeated
\* x := move_toward(x, to, delta) from x = from: each step changes x by at
\* most delta, |to - x| never increases and x never passes beyond `to`; x
\* becomes exactly `to` on the first step at which |to - x| <= delta, which
\* comes after finitely many steps; and once x == to every further step
\* leaves x == to.
C17_MoveToward ==
    /\ [][(fn = "move_toward" /\ fn' = "move_toward" /\ args[3] > 0)
            => MoveTowardStepRule]_vars
    /\ (fn = "move_toward" /\ args[3] > 0)
            ~> [](fn = "move_toward" /\ result = args[2])

\* from and to are whole numbers of magnitude at most 2^24, so that with a
\* whole delta every difference and every sum of the iteration is exact.
MoveTowardExact ==
    /\ ABS(args[1]) <= FloatExactMax
    /\ ABS(args[2]) <= FloatExactMax

\* C17, amended: the same, for from, to and delta > 0 on which the
\* arithmetic of move_toward is exact.
C17_MoveTowardExact ==
    /\ [][(fn = "move_toward" /\ fn' = "move_toward" /\ args[3] > 0 /\ MoveTowardExact)
            => MoveTowardStepRule]_vars
    /\ (fn = "move_toward" /\ args[3] > 0 /\ MoveTowardExact)
            ~> [](fn = "move_toward" /\ result = args[2])

\* C17's case: from -3 toward 2 in steps of 2, x has gone -3, -1, 1 and the
\* last step, shorter than delta, lands on 2.
C17_Witness ==
    /\ fn = "move_toward"
    /\ args = <<-3, 2, 2>>
    /\ aux = [x_before |-> 1, steps |-> "some"]
    /\ result = 2

\* C17's fixed point: a step taken at x == to, just below 2^24.
C17_WitnessFixedPoint ==
    /\ fn = "move_toward"
    /\ args = <<FloatExactMax, FloatExactMax - 3, 2>>
    /\ aux = [x_before |-> FloatExactMax - 3, steps |-> "some"]
    /\ result = FloatExactMax - 3

\* Where C17 fails: from 2^24 toward 2^24 + 2 with delta 1 the sum
\* 2^24 + 1 rounds to 2^24, and a step leaves x where it was, short of to.
C17_Stalled ==
    /\ fn = "move_toward"
    /\ args = <<FloatExactMax, FloatExactMax + 2, 1>>
    /\ aux = [x_before |-> FloatExactMax, steps |-> "some"]
    /\ result = FloatExactMax

NextBits ==
    \/ NextPowerOf2
    \/ PreviousPowerOf2
    \/ ClosestPowerOf2
    \/ GetShiftFromPowerOf2
    \/ Return

SpecBits == Init /\ [][NextBits]_vars

\* p is a power of two: exactly one bit is set.
IsPow2(p) == Cardinality({i \in BitIndex : Bit(p, i)}) = 1

\* x <= y, unsigned.
LessEq(x, y) == ~Less(y, x)

\* |x - y| of two unsigned values.
AbsDiff(x, y) == IF Less(x, y) THEN Sub(y, x) ELSE Sub(x, y)

\* The smallest power of two not below x: p is a power of two, p >= x and
\* p / 2 < x.
IsNextPow2(p, x) == IsPow2(p) /\ LessEq(x, p) /\ Less(Shr(p, 1), x)

\* The largest power of two not above x: p is a power of two and
\* p <= x < 2 * p (x < 2 * p stated as x / 2 < p, which cannot overflow).
IsPrevPow2(p, x) == IsPow2(p) /\ LessEq(p, x) /\ Less(Shr(x, 1), p)

\* C8 as stated: for every unsigned x closest_power_of_2(x) is whichever of
\* next_power_of_2(x) and previous_power_of_2(x) is nearer to x, and on a
\* tie the lower one, previous_power_of_2(x); closest_power_of_2(5) == 4.
C8_TiesToPrevious ==
    fn = "closest_power_of_2" =>
        LET x == args[1]
            dn == AbsDiff(aux.nx, x)
            dp == AbsDiff(x, aux.px)
        IN  /\ Less(dn, dp) => result = aux.nx
            /\ Less(dp, dn) => result = aux.px
            /\ dn = dp => result = aux.px
            /\ x = U32(5) => result = U32(4)

\* C8 amended: for every unsigned x <= 2^31 closest_power_of_2(x) is
\* whichever of next_power_of_2(x) and previous_power_of_2(x) is nearer to
\* x, and on a tie (x = 3, x = 6) the higher one, next_power_of_2(x);
\* closest_power_of_2(5) == 4.
C8_TiesToNext ==
    (fn = "closest_power_of_2" /\ LessEq(args[1], U32Bit(31))) =>
        LET x == args[1]
            dn == AbsDiff(aux.nx, x)
            dp == AbsDiff(x, aux.px)
        IN  /\ aux.nx = next_power_of_2(x)
            /\ aux.px = previous_power_of_2(x)
            /\ Less(dn, dp) => result = aux.nx
            /\ Less(dp, dn) => result = aux.px
            /\ dn = dp => result = aux.nx
            /\ x = U32(3) => result = U32(4)
            /\ x = U32(6) => result = U32(8)
            /\ x = U32(5) => result = U32(4)

\* C8's case: 6 is as far from 4 as from 8, and the call returns 8.
C8_Witness ==
    /\ fn = "closest_power_of_2"
    /\ args = <<U32(6)>>
    /\ aux.px = U32(4) /\ aux.nx = U32(8)
    /\ result = U32(8)

\* C9 as stated: for every 32-bit unsigned x >= 1 next_power_of_2(x) is the
\* smallest power of two not below x, x itself when x is a power of two;
\* next_power_of_2(0) == 0.
C9_NextPow2All ==
    fn = "next_power_of_2" =>
        LET x == args[1]
        IN  /\ x # U32(0) => IsNextPow2(result, x)
            /\ IsPow2(x) => result = x
            /\ x = U32(0) => result = U32(0)

\* C9 amended: for every 32-bit unsigned x with 1 <= x <= 2^31
\* next_power_of_2(x) is the smallest power of two not below x, x itself
\* when x is a power of two (8 gives 8, 5 gives 8); next_power_of_2(0) == 0;
\* and for x > 2^31, where no 32-bit power of two is >= x, the result is 0.
C9_NextPow2 ==
    fn = "next_power_of_2" =>
        LET x == args[1]
        IN  /\ (x # U32(0) /\ LessEq(x, U32Bit(31))) => IsNextPow2(result, x)
            /\ IsPow2(x) => result = x
            /\ x = U32(8) => result = U32(8)
            /\ x = U32(5) => result = U32(8)
            /\ x = U32(0) => result = U32(0)
            /\ Less(U32Bit(31), x) => result = U32(0)

\* C9's case: x = 2^30 + 1 is rounded up to 2^31, the largest power of two
\* an unsigned int holds.
C9_Witness ==
    /\ fn = "next_power_of_2"
    /\ args = <<Add(U32Bit(30), U32(1))>>
    /\ result = U32Bit(31)

\* C10: for every 32-bit unsigned x >= 1 previous_power_of_2(x) is the
\* largest power of two not above x, the value of the highest set bit of x,
\* also when bit 31 is set; previous_power_of_2(0) == 0; and for x >= 1,
\* previous_power_of_2(x) == x == next_power_of_2(x) exactly when x is a
\* power of two.
C10_PrevPow2 ==
    fn = "previous_power_of_2" =>
        LET x == args[1]
        IN  /\ x # U32(0) =>
                /\ IsPrevPow2(result, x)
                /\ \E k \in BitIndex :
                    /\ Bit(x, k) /\ \A j \in BitIndex : j > k => ~Bit(x, j)
                    /\ result = U32Bit(k)
                /\ (result = x /\ next_power_of_2(x) = x) <=> IsPow2(x)
            /\ x = U32(5) => result = U32(4)
            /\ x = U32(0) => result = U32(0)

\* C10's case: an x with bit 31 set that is no power of two, 2^31 + 2^30 + 1.
C10_Witness ==
    /\ fn = "previous_power_of_2"
    /\ args = <<Add(Add(U32Bit(31), U32Bit(30)), U32(1))>>
    /\ result = U32Bit(31)

\* C11: for every 32-bit unsigned bits get_shift_from_power_of_2(bits)
\* returns k in 0..31 if and only if bits == 2^k and the sentinel -1 for
\* every other value (0, and every value with more than one bit set, such
\* as 6); get_shift_from_power_of_2(16) == 4.
C11_ShiftOfPow2 ==
    fn = "get_shift_from_power_of_2" =>
        LET p_bits == args[1]
        IN  /\ result \in -1..(UINT_BITS - 1)
            /\ \A k \in BitIndex : result = k <=> p_bits = U32Bit(k)
            /\ result = -1 <=> ~IsPow2(p_bits)
            /\ p_bits = U32(16) => result = 4
            /\ p_bits = U32(6) => result = -1
            /\ p_bits = U32(0) => result = -1

\* C11's case: get_shift_from_power_of_2(16) returns 4.
C11_Witness ==
    /\ fn = "get_shift_from_power_of_2"
    /\ args = <<U32(16)>>
    /\ result = 4

\* C11's sentinel: 6 has two bits set.
C11_WitnessSentinel ==
    /\ fn = "get_shift_from_power_of_2"
    /\ args = <<U32(6)>>
    /\ result = -1

NextSwap ==
    \/ Bswap16
    \/ Bswap32
    \/ Bswap64
    \/ Return

SpecSwap == Init /\ [][NextSwap]_vars

\* The width in bytes of the operand of each byte swap.
SwapWidth == [BSWAP16 |-> 2, BSWAP32 |-> 4, BSWAP64 |-> 8]

\* C14: byte swap is an involution that reverses byte order: for x of 16,
\* 32 and 64 bits BSWAP(BSWAP(x)) == x, byte i of BSWAP(x) is byte n-1-i of
\* x, and the result stays within the width of the operand.
C14_SwapInvolution ==
    fn \in {"BSWAP16", "BSWAP32", "BSWAP64"} =>
        LET x == args[1]
            n == SwapWidth[fn]
        IN  /\ Len(x) = n
            /\ Len(result) = n
            /\ \A i \in 0..(n - 1) :
                /\ result[i + 1] \in ByteValues
                /\ result[i + 1] = x[(n - 1 - i) + 1]
            /\ aux = x

\* C14's case: the function form of BSWAP32 on 0x7F0100FF gives 0xFF00017F.
C14_Witness ==
    /\ fn = "BSWAP32"
    /\ args = <<(<<255, 0, 1, 127>>), FALSE>>
    /\ result = <<127, 1, 0, 255>>
    /\ aux = <<255, 0, 1, 127>>

\* C14 at 64 bits: eight different bytes, 0x0807060504030201.
C14_Witness64 ==
    /\ fn = "BSWAP64"
    /\ args = <<ByteRamp(1, 1), FALSE>>
    /\ result = <<8, 7, 6, 5, 4, 3, 2, 1>>

\* C14 at 16 bits: 0xFF01 gives 0x01FF.
C14_Witness16 ==
    /\ fn = "BSWAP16"
    /\ args = <<(<<1, 255>>), FALSE>>
    /\ result = <<255, 1>>

NextApprox ==
    \/ IsEqualApprox
    \/ IsEqualApproxAngle
    \/ IsZeroApprox
    \/ Return

SpecApprox == Init /\ [][NextApprox]_vars

RealMax(x, y) == IF RealLess(x, y) THEN y ELSE x

\* The rule of the two-argument is_equal_approx on plain values.
ApproxRule(a, b) ==
    \/ RealEq(a, b)
    \/ RealLess(RealAbs(RealSub(a, b)),
                RealMax(Dec(1, -5), RealMul(Dec(1, -5), RealAbs(a))))

\* C4: for all scalars a, b is_equal_approx(a, b) is true exactly when
\* a == b (so two infinities of one sign are equal) or
\* |a - b| < max(EPSILON, EPSILON * |a|), the tolerance scaled by the first
\* operand only and never below the absolute epsilon; hence
\* is_equal_approx(1e10, 1e10 + 0.5) is true.  The Radian and Degree
\* overloads apply the rule to the wrapped values, in their own unit.
C4_ApproxRule ==
    /\ fn = "is_equal_approx" =>
        /\ result <=> ApproxRule(args[1], args[2])
        /\ (args[1].kind = "inf" /\ args[2] = args[1]) => result
        /\ args = <<Dec(1, 10), RealAdd(Dec(1, 10), Dec(5, -1))>> => result
    /\ fn = "is_equal_approx_angle" =>
        (result <=> ApproxRule(args[1].value, args[2].value))

\* C4's case: is_equal_approx(1e10, 1e10 + 0.5) is true, by the tolerance
\* 1e5 and not by exact equality.
C4_Witness ==
    /\ fn = "is_equal_approx"
    /\ args = <<Dec(1, 10), RealAdd(Dec(1, 10), Dec(5, -1))>>
    /\ args[1] # args[2]
    /\ result

\* C4's other cases: two infinities of one sign are equal ...
C4_WitnessInfinity ==
    /\ fn = "is_equal_approx"
    /\ args = <<Inf(TRUE), Inf(TRUE)>>
    /\ result

\* ... and the tolerance follows the first operand only: 2e5 and 2e5 + 1 are
\* equal (tolerance 2), 1 and 1 + 1e-5 are not (tolerance 1e-5, not below).
C4_WitnessFirstOperand ==
    /\ fn = "is_equal_approx"
    /\ args = <<Dec(2, 5), RealAdd(Dec(2, 5), Dec(1, 0))>>
    /\ result

\* C1: every fast_ftoi call that has loaded its return value returns the
\* rounded integer of its own argument, and the value it loaded from b was
\* stored by the same call, under every interleaving of two threads.
C1_OwnResult ==
    \A t \in Threads :
        pc[t] = "done" => (ret[t] = lrintf(t_a[t]) /\ b_read_from[t] = t)

=============================================================================
